---- MODULE Spec2Model ----
(***************************************************************************)
(* Model of leptonai/cli/util.py: the helper functions of the CLI.         *)
(*                                                                         *)
(* A CLI process calls the helpers one after another.  A call either       *)
(* returns a value, raises an exception, or terminates the process with    *)
(* sys.exit(1).  The state records the call being made, what it printed on *)
(* the console, and how it ended.  sizeof_fmt is modelled loop iteration   *)
(* by loop iteration, with its running magnitude as state.                 *)
(*                                                                         *)
(* Strings that the code inspects character by character (command names,   *)
(* command tokens) are sequences of one-character strings.  Numbers that   *)
(* exceed 32-bit integers (byte counts up to 1024^9 and beyond) are        *)
(* little-endian sequences of base-1024 digits.                            *)
(***************************************************************************)
EXTENDS Integers, Sequences, FiniteSets

VARIABLES call, ret, raised, console, exited, exit_code, matches, pc, num, unit

vars == <<call, ret, raised, console, exited, exit_code, matches, pc, num, unit>>

(***************************************************************************)
(* Bounds of the model.                                                    *)
(***************************************************************************)
MaxLen == 3        \* longest command name / token, in characters
MaxCommands == 3   \* most commands registered in a group
MaxRegistryChars == 7  \* most characters in the names of a group together
MaxDigits == 9     \* longest byte count, in base-1024 digits
MaxReplicas == 3   \* most replica records returned by the API

(***************************************************************************)
(* Values.                                                                 *)
(***************************************************************************)
NoneVal == [kind |-> "None"]
NoCall == [fn |-> "none"]
NoRaise == [kind |-> "none"]
NoNum == [isfloat |-> FALSE, neg |-> FALSE, digits |-> <<>>, shift |-> 0]

(***************************************************************************)
(* Command names and tokens: strings over a two-letter alphabet.           *)
(***************************************************************************)
Alphabet == {"d", "e"}

ord(c) == IF c = "d" THEN 100 ELSE 101

RECURSIVE StringsOfLen(_)
StringsOfLen(n) ==
    IF n = 0 THEN {<<>>}
    ELSE {Append(s, c) : s \in StringsOfLen(n - 1), c \in Alphabet}

Strings == UNION {StringsOfLen(n) : n \in 0..MaxLen}

RECURSIVE TotalLen(_)
TotalLen(r) ==
    IF r = {} THEN 0
    ELSE LET n == CHOOSE y \in r : TRUE
         IN  Len(n) + TotalLen(r \ {n})

RECURSIVE RegistriesOf(_)
RegistriesOf(k) ==
    IF k = 0 THEN {{}}
    ELSE LET S == RegistriesOf(k - 1)
             more == {p \in S \X Strings :
                         /\ p[2] \notin p[1]
                         /\ TotalLen(p[1]) + Len(p[2]) <= MaxRegistryChars}
         IN  S \cup {p[1] \cup {p[2]} : p \in more}

Registries == RegistriesOf(MaxCommands)

(***************************************************************************)
(* Python's str comparison: lexicographic by code point, a proper prefix   *)
(* sorting first.                                                          *)
(***************************************************************************)
\* a slip that orders the code points the wrong way round
RECURSIVE StrLessDescending(_, _)
StrLessDescending(a, b) ==
    IF Len(b) = 0 THEN FALSE
    ELSE IF Len(a) = 0 THEN TRUE
    ELSE IF ord(Head(a)) # ord(Head(b)) THEN ord(Head(a)) > ord(Head(b))
    ELSE StrLessDescending(Tail(a), Tail(b))

RECURSIVE StrLess(_, _)
StrLess(a, b) ==
    IF Len(b) = 0 THEN FALSE
    ELSE IF Len(a) = 0 THEN TRUE
    ELSE IF ord(Head(a)) # ord(Head(b)) THEN ord(Head(a)) < ord(Head(b))
    ELSE StrLess(Tail(a), Tail(b))

\* sorted(list): insertion of each element in turn, stable.
RECURSIVE InsertSorted(_, _)
InsertSorted(s, x) ==
    IF Len(s) = 0 THEN <<x>>
    ELSE IF StrLess(x, Head(s)) THEN <<x>> \o s
    ELSE <<Head(s)>> \o InsertSorted(Tail(s), x)

RECURSIVE sorted(_)
sorted(s) ==
    IF Len(s) = 0 THEN <<>>
    ELSE InsertSorted(sorted(SubSeq(s, 1, Len(s) - 1)), s[Len(s)])

\* click.Group.list_commands: sorted(self.commands).
RECURSIVE SetToSeq(_)
SetToSeq(S) ==
    IF S = {} THEN <<>>
    ELSE LET x == CHOOSE y \in S : TRUE
         IN  Append(SetToSeq(S \ {x}), x)

list_commands(registry) == sorted(SetToSeq(registry))

(***************************************************************************)
(* is_abbrev(x, y), lines 42-47.                                           *)
(*   x[0] != y[0] raises IndexError when either string is empty.           *)
(*   it = iter(y); all(any(c == ch for c in it) for ch in x): each ch of x *)
(*   consumes characters of the one iterator until one equals ch.          *)
(* The result is "True", "False" or "IndexError".                          *)
(***************************************************************************)

\* any(c == ch for c in it): position after the first match at or after j,
\* or 0 when the iterator is exhausted without a match.
RECURSIVE AnyFrom(_, _, _)
AnyFrom(y, j, ch) ==
    IF j > Len(y) THEN 0
    ELSE IF y[j] = ch THEN j + 1
    ELSE AnyFrom(y, j + 1, ch)

RECURSIVE AllFrom(_, _, _, _)
AllFrom(x, i, y, j) ==
    IF i > Len(x) THEN TRUE
    ELSE LET k == AnyFrom(y, j, x[i])
         IN  IF k = 0 THEN FALSE ELSE AllFrom(x, i + 1, y, k)

\* a slip that compares the first characters only when there are any
is_abbrev_guarded(x, y) ==
    IF Len(x) = 0 \/ Len(y) = 0 THEN "False"
    ELSE IF x[1] # y[1] THEN "False"
    ELSE IF AllFrom(x, 1, y, 1) THEN "True"
    ELSE "False"

\* a slip that leaves out the first-character test
is_abbrev_no_first_char(x, y) ==
    IF Len(x) = 0 \/ Len(y) = 0 THEN "IndexError"
    ELSE IF AllFrom(x, 1, y, 1) THEN "True"
    ELSE "False"

is_abbrev(x, y) ==
    IF Len(x) = 0 \/ Len(y) = 0 THEN "IndexError"
    ELSE IF x[1] # y[1] THEN "False"
    ELSE IF AllFrom(x, 1, y, 1) THEN "True"
    ELSE "False"

(***************************************************************************)
(* ClickAliasedGroup.get_command, lines 37-55.                             *)
(***************************************************************************)
\* click.Group.get_command: self.commands.get(cmd_name)
Group_get_command(registry, cmd_name) ==
    IF cmd_name \in registry
    THEN [kind |-> "Command", name |-> cmd_name]
    ELSE NoneVal

\* the list comprehension of line 49, over a list of names
RECURSIVE FilterAbbrev(_, _)
FilterAbbrev(cmd_name, names) ==
    IF Len(names) = 0 THEN <<>>
    ELSE IF is_abbrev(cmd_name, Head(names)) = "True"
         THEN <<Head(names)>> \o FilterAbbrev(cmd_name, Tail(names))
         ELSE FilterAbbrev(cmd_name, Tail(names))

\* the comprehension raises as soon as one is_abbrev call raises
ComprehensionRaises(registry, cmd_name) ==
    \E y \in registry : is_abbrev(cmd_name, y) = "IndexError"

\* the value or exception of lines 49-55, once the exact lookup found nothing
Abbreviated(registry, cmd_name) ==
    IF ComprehensionRaises(registry, cmd_name)
    THEN [matches |-> <<>>, ret |-> NoneVal,
          raised |-> [kind |-> "IndexError"]]
    ELSE LET m == FilterAbbrev(cmd_name, list_commands(registry))
         IN  IF Len(m) = 0
             THEN [matches |-> m, ret |-> NoneVal, raised |-> NoRaise]
             ELSE IF Len(m) = 1
             THEN [matches |-> m,
                   ret |-> Group_get_command(registry, m[1]),
                   raised |-> NoRaise]
             ELSE [matches |-> m, ret |-> NoneVal,
                   raised |-> [kind |-> "UsageError",
                               cmd_name |-> cmd_name,
                               listed |-> sorted(m)]]

\* a slip that resolves abbreviations before looking the name up
get_command_abbrev_first(registry, cmd_name) ==
    Abbreviated(registry, cmd_name)

\* outcome of get_command: the matches list, the value returned, the
\* exception raised
get_command(registry, cmd_name) ==
    LET rv == Group_get_command(registry, cmd_name)
    IN  IF rv # NoneVal
        THEN [matches |-> <<>>, ret |-> rv, raised |-> NoRaise]
        ELSE Abbreviated(registry, cmd_name)

(***************************************************************************)
(* Console output and process termination.                                 *)
(*                                                                         *)
(* An outcome of a helper is what it printed, whether it called            *)
(* sys.exit, with which status, the value it returned and the exception it *)
(* raised.                                                                 *)
(***************************************************************************)
Text(t) == [kind |-> "str", text |-> t]

\* Python truthiness of an Optional[str]
Truthy(v) == v.kind = "str" /\ v.text # ""

Returns(out, v) ==
    [console |-> out, exited |-> FALSE, exit_code |-> 0, ret |-> v,
     raised |-> NoRaise]

\* sys.exit(1)
Exits(out) ==
    [console |-> out, exited |-> TRUE, exit_code |-> 1, ret |-> NoneVal,
     raised |-> NoRaise]

Raises(out, exc) ==
    [console |-> out, exited |-> FALSE, exit_code |-> 0, ret |-> NoneVal,
     raised |-> [kind |-> exc]]

(***************************************************************************)
(* check(condition, message), lines 83-92.                                 *)
(***************************************************************************)
check(condition, message) ==
    IF ~condition
    THEN Exits(<<message>>)
    ELSE Returns(<<>>, NoneVal)

(***************************************************************************)
(* guard_api(content_or_error, detail, msg), lines 95-114.                 *)
(***************************************************************************)
isinstance_APIError(v) == v.kind = "APIError"

\* a slip that prints the error whatever detail says
guard_api_always_detail(content_or_error, detail, msg) ==
    IF isinstance_APIError(content_or_error)
    THEN Exits(<<content_or_error>>
               \o (IF Truthy(msg) THEN <<msg>> ELSE <<>>))
    ELSE Returns(<<>>, content_or_error)

guard_api(content_or_error, detail, msg) ==
    IF isinstance_APIError(content_or_error)
    THEN Exits((IF detail THEN <<content_or_error>> ELSE <<>>)
               \o (IF Truthy(msg) THEN <<msg>> ELSE <<>>))
    ELSE Returns(<<>>, content_or_error)

APIErrors == {[kind |-> "APIError", message |-> "not found"],
              [kind |-> "APIError", message |-> "forbidden"]}

Contents == {NoneVal, [kind |-> "json", value |-> "a"],
             [kind |-> "json", value |-> "b"]}

OptionalMsgs == {NoneVal, Text(""), Text("see error above")}

(***************************************************************************)
(* explain_response(response, if_2xx, if_4xx, if_others, exit_if_4xx),     *)
(* lines 117-153.  The response is a requests.Response.                    *)
(***************************************************************************)
\* status codes an HTTP response can carry (three digits)
StatusCodes == 100..999

\* requests.Response.ok: raise_for_status() raises for 400 <= status < 600
response_ok(response) ==
    ~(response.status_code >= 400 /\ response.status_code < 600)

\* requests.Response.is_redirect: a Location header and a redirect status
response_is_redirect(response) ==
    /\ response.has_location
    /\ response.status_code \in {301, 302, 303, 307, 308}

\* response.json() followed by content['code'] and content['message']
\* succeeds only for a JSON object that has both keys
BodyIsCoded(body) ==
    body.json = "object" /\ {"code", "message"} \subseteq body.keys

Bodies ==
    {[text |-> "raw", json |-> "invalid", keys |-> {}],
     [text |-> "raw", json |-> "array", keys |-> {}]}
    \cup {[text |-> "raw", json |-> "object", keys |-> k] :
            k \in SUBSET {"code", "message"}}

Responses ==
    [status_code : StatusCodes, has_location : BOOLEAN, body : Bodies]

\* a slip that takes 499 for a status outside the client errors
Is4xxOffByOne(status_code) == status_code >= 400 /\ status_code < 499

\* response.status_code >= 400 and response.status_code <= 499
Is4xx(status_code) == status_code >= 400 /\ status_code <= 499

explain_response(response, if_2xx, if_4xx, if_others, exit_if_4xx) ==
    IF response_ok(response) \/ response_is_redirect(response)
    THEN Returns(IF Truthy(if_2xx) THEN <<if_2xx>> ELSE <<>>, NoneVal)
    ELSE LET errmsg ==
                 IF Is4xx(response.status_code)
                 THEN if_4xx
                 ELSE if_others
             line ==
                 IF BodyIsCoded(response.body)
                 THEN [kind |-> "coded",
                       status_code |-> response.status_code,
                       code |-> "X", message |-> "Y", errmsg |-> errmsg]
                 ELSE [kind |-> "raw",
                       status_code |-> response.status_code,
                       text |-> response.body.text, errmsg |-> errmsg]
         IN  IF Is4xx(response.status_code) /\ ~exit_if_4xx
             THEN Returns(<<line>>, NoneVal)
             ELSE Exits(<<line>>)

If2xxMsgs == {NoneVal, Text("done")}
If4xxMsg == Text("client error, check your input")
IfOthersMsg == Text("internal server error")

(***************************************************************************)
(* get_only_replica_public_ip_or_die(conn, name), lines 168-179.           *)
(*                                                                         *)
(* A replica record is a JSON object: its "status" key is absent, null or  *)
(* an object, whose "public_ip" key is absent, null or an address.         *)
(***************************************************************************)
Replicas ==
    {[status |-> "absent", public_ip |-> "absent"],
     [status |-> "null", public_ip |-> "absent"]}
    \cup {[status |-> "dict", public_ip |-> ip] :
            ip \in {"absent", "null", "10.0.0.1", "10.0.0.2"}}

RECURSIVE ReplicaLists(_)
ReplicaLists(n) ==
    IF n = 0 THEN {<<>>}
    ELSE LET S == ReplicaLists(n - 1)
         IN  S \cup {Append(l, r) : l \in {x \in S : Len(x) = n - 1},
                                    r \in Replicas}

ReplicaResults ==
    APIErrors \cup {[kind |-> "list", items |-> l] : l \in ReplicaLists(MaxReplicas)}

\* a slip that subscripts the record: replicas[0]["status"]["public_ip"]
public_ip_of_subscript(replica) ==
    IF replica.status = "absent" THEN Raises(<<>>, "KeyError")
    ELSE IF replica.status = "null" THEN Raises(<<>>, "TypeError")
    ELSE IF replica.public_ip = "absent" THEN Raises(<<>>, "KeyError")
    ELSE IF replica.public_ip = "null" THEN Returns(<<>>, NoneVal)
    ELSE Returns(<<>>, Text(replica.public_ip))

\* replicas[0].get("status", {}).get("public_ip", None)
public_ip_of(replica) ==
    IF replica.status = "null"
    THEN Raises(<<>>, "AttributeError")
    ELSE IF replica.status = "absent" \/ replica.public_ip \in {"absent", "null"}
    THEN Returns(<<>>, NoneVal)
    ELSE Returns(<<>>, Text(replica.public_ip))

ReplicaInfoMsg == Text("Cannot obtain replica info. See error above.")
MoreThanOneMsg == Text("Pod has more than one replica. This is not supported.")

get_only_replica_public_ip_or_die(get_replicas_result) ==
    LET g == guard_api(get_replicas_result, TRUE, ReplicaInfoMsg)
    IN  IF g.exited THEN g
        ELSE LET replicas == g.ret.items
                 c == check(Len(replicas) = 1, MoreThanOneMsg)
             IN  IF c.exited THEN c
                 ELSE public_ip_of(replicas[1])

(***************************************************************************)
(* _get_only_replica_public_ip(name), lines 182-190: the APIClient         *)
(* returns typed replica objects, whose status is an object or None.       *)
(***************************************************************************)
TypedReplicaLists ==
    {l \in ReplicaLists(MaxReplicas) :
        \A i \in 1..Len(l) : l[i].status # "absent" /\ l[i].public_ip # "absent"}

_get_only_replica_public_ip(replicas) ==
    IF Len(replicas) # 1
    THEN Exits(<<MoreThanOneMsg>>)
    ELSE IF replicas[1].status = "null"
    THEN Raises(<<>>, "AttributeError")
    ELSE IF replicas[1].public_ip = "null"
    THEN Returns(<<>>, NoneVal)
    ELSE Returns(<<>>, Text(replicas[1].public_ip))

(***************************************************************************)
(* Numbers.  A natural number is the little-endian sequence of its         *)
(* base-1024 digits, without leading zero digits; zero is <<>>.            *)
(***************************************************************************)
Base == 1024

RECURSIVE Pow2(_)
Pow2(k) == IF k = 0 THEN 1 ELSE 2 * Pow2(k - 1)

\* number of bits of a digit d >= 1
RECURSIVE BitLen(_)
BitLen(d) == IF d <= 1 THEN d ELSE 1 + BitLen(d \div 2)

\* drop leading (most significant) zero digits
RECURSIVE Normalize(_)
Normalize(d) ==
    IF Len(d) = 0 THEN <<>>
    ELSE IF d[Len(d)] = 0 THEN Normalize(SubSeq(d, 1, Len(d) - 1))
    ELSE d

\* d * m + c for a small m and carry c, keeping the length of d
RECURSIVE MulCarry(_, _, _)
MulCarry(d, m, c) ==
    IF Len(d) = 0 THEN (IF c = 0 THEN <<>> ELSE <<c>>)
    ELSE LET v == Head(d) * m + c
         IN  <<v % Base>> \o MulCarry(Tail(d), m, v \div Base)

\* d + 1024^(i-1) * a, for a digit-sized a
RECURSIVE AddAt(_, _, _)
AddAt(d, i, a) ==
    IF a = 0 THEN d
    ELSE IF i > Len(d) THEN Append(d, a)
    ELSE LET v == d[i] + a
         IN  AddAt([d EXCEPT ![i] = v % Base], i + 1, v \div Base)

RECURSIVE ToInt(_)
ToInt(d) == IF Len(d) = 0 THEN 0 ELSE Head(d) + Base * ToInt(Tail(d))

\* digit i of d, zero beyond its length
DigitAt(d, i) == IF i >= 1 /\ i <= Len(d) THEN d[i] ELSE 0

\* the digits of d below position i are all zero
LowZero(d, i) == \A j \in 1..(i - 1) : DigitAt(d, j) = 0

\* how the part of d below bit s of digit i compares with half of 2^s *
\* 1024^(i-1): "below", "tie" or "above"
HalfCompare(d, i, s) ==
    LET cl == IF s = 0 THEN DigitAt(d, i - 1) ELSE DigitAt(d, i) % Pow2(s)
        h == IF s = 0 THEN Base \div 2 ELSE Pow2(s - 1)
        rest == IF s = 0 THEN LowZero(d, i - 1) ELSE LowZero(d, i)
    IN  IF cl > h \/ (cl = h /\ ~rest) THEN "above"
        ELSE IF cl = h THEN "tie"
        ELSE "below"

(***************************************************************************)
(* float(n) for an int n, as int / float computes it on line 164: the      *)
(* nearest IEEE-754 double, ties to even.  A double keeps 53 significant   *)
(* bits.                                                                   *)
(***************************************************************************)
MantissaBits == 53

BitsOf(d) == IF Len(d) = 0 THEN 0 ELSE 10 * (Len(d) - 1) + BitLen(d[Len(d)])

RoundToDouble(d) ==
    IF BitsOf(d) <= MantissaBits THEN d
    ELSE LET r == BitsOf(d) - MantissaBits
             q == r \div 10
             s == r % 10
             keep == d[q + 1] - (d[q + 1] % Pow2(s))
             cmp == HalfCompare(d, q + 1, s)
             odd == (keep \div Pow2(s)) % 2 = 1
             trunc == [i \in 1..Len(d) |->
                         IF i <= q THEN 0
                         ELSE IF i = q + 1 THEN keep
                         ELSE d[i]]
         IN  IF cmp = "above" \/ (cmp = "tie" /\ odd)
             THEN AddAt(trunc, q + 1, Pow2(s))
             ELSE trunc

(***************************************************************************)
(* sizeof_fmt(num, suffix), lines 156-165.                                 *)
(*                                                                         *)
(* The running num is sign * digits / 1024^shift.  It is the int passed in *)
(* until the first division, and a double from then on; dividing a double  *)
(* by 1024.0 is exact.                                                     *)
(***************************************************************************)
Units == <<"", "Ki", "Mi", "Gi", "Ti", "Pi", "Ei", "Zi">>

\* a slip that writes abs(num) <= 1024.0
AtMost1024(n) ==
    \/ Len(n.digits) <= n.shift + 1
    \/ /\ Len(n.digits) = n.shift + 2
       /\ n.digits[Len(n.digits)] = 1
       /\ \A j \in 1..(Len(n.digits) - 1) : n.digits[j] = 0

\* abs(num) < 1024.0
Below1024(n) == Len(n.digits) <= n.shift + 1

\* a slip that divides twice per unit
DivideTwice(n) ==
    [isfloat |-> TRUE, neg |-> n.neg,
     digits |-> IF n.isfloat THEN n.digits ELSE RoundToDouble(n.digits),
     shift |-> n.shift + 2]

\* num /= 1024.0
Divide(n) ==
    [isfloat |-> TRUE, neg |-> n.neg,
     digits |-> IF n.isfloat THEN n.digits ELSE RoundToDouble(n.digits),
     shift |-> n.shift + 1]

\* the digits of f"{num:.1f}": abs(num) in tenths, rounded to the nearest
\* tenth, an exact tie going to the even tenth
Tenths(n) ==
    LET p == MulCarry(n.digits, 10, 0)
        whole == ToInt(SubSeq(p, n.shift + 1, Len(p)))
        cmp == HalfCompare(p, n.shift + 1, 0)
    IN  IF n.shift = 0 THEN whole
        ELSE IF cmp = "above" \/ (cmp = "tie" /\ whole % 2 = 1) THEN whole + 1
        ELSE whole

\* f"{num:3.1f}{unit}{suffix}"
Format(n, u, suffix) ==
    [kind |-> "str", neg |-> n.neg, tenths |-> Tenths(n), unit |-> u,
     suffix |-> suffix]

(***************************************************************************)
(* The byte counts sizeof_fmt is applied to: the two most significant      *)
(* digits decide the unit and the digits shown, the digits below them      *)
(* decide how the conversion to a double rounds.                           *)
(***************************************************************************)
TopDigits == {1, 1023}
SecondDigits == {0, 256, 512, 1023}
FillDigits == {0, 1023}

RECURSIVE Fills(_)
Fills(n) ==
    IF n = 0 THEN {<<>>}
    ELSE {<<f>> \o l : f \in FillDigits, l \in Fills(n - 1)}

ByteCounts ==
    {<<>>} \cup {<<d>> : d \in TopDigits \cup (SecondDigits \ {0})}
    \cup UNION {{l \o <<d2, d1>> :
                    l \in Fills(len - 2), d2 \in SecondDigits, d1 \in TopDigits} :
                len \in 2..MaxDigits}

Suffixes == {"B", "b/s"}

Init ==
    /\ call = NoCall
    /\ ret = NoneVal
    /\ raised = NoRaise
    /\ console = <<>>
    /\ exited = FALSE
    /\ exit_code = 0
    /\ matches = <<>>
    /\ pc = "idle"
    /\ num = NoNum
    /\ unit = 0

\* the process can make a call: it has not exited, no exception is
\* propagating, and no call is in progress or waiting to be consumed
CanCall == ~exited /\ raised = NoRaise /\ pc = "idle" /\ call = NoCall

\* the caller consumes the value a call returned and carries on; the helpers
\* keep nothing from one call to the next
Continue ==
    /\ ~exited
    /\ raised = NoRaise
    /\ pc = "idle"
    /\ call # NoCall
    /\ call' = NoCall
    /\ ret' = NoneVal
    /\ console' = <<>>
    /\ matches' = <<>>
    /\ num' = NoNum
    /\ unit' = 0
    /\ UNCHANGED <<raised, exited, exit_code, pc>>

GetCommand ==
    /\ CanCall
    /\ \E registry \in Registries, cmd_name \in Strings :
          LET r == get_command(registry, cmd_name)
          IN  /\ call' = [fn |-> "get_command", registry |-> registry,
                          cmd_name |-> cmd_name]
              /\ ret' = r.ret
              /\ raised' = r.raised
              /\ matches' = r.matches
    /\ console' = <<>>
    /\ UNCHANGED <<exited, exit_code, pc, num, unit>>

\* a call that runs to its end in one step: record the call and its outcome
Finish(c, o) ==
    /\ call' = c
    /\ ret' = o.ret
    /\ raised' = o.raised
    /\ console' = o.console
    /\ exited' = o.exited
    /\ exit_code' = o.exit_code
    /\ UNCHANGED <<matches, pc, num, unit>>

GuardApi ==
    /\ CanCall
    /\ \E content_or_error \in APIErrors \cup Contents, detail \in BOOLEAN,
          msg \in OptionalMsgs :
          Finish([fn |-> "guard_api", content_or_error |-> content_or_error,
                  detail |-> detail, msg |-> msg],
                 guard_api(content_or_error, detail, msg))

Check ==
    /\ CanCall
    /\ \E condition \in BOOLEAN :
          Finish([fn |-> "check", condition |-> condition],
                 check(condition, MoreThanOneMsg))

ExplainResponse ==
    /\ CanCall
    /\ \E response \in Responses, if_2xx \in If2xxMsgs, exit_if_4xx \in BOOLEAN :
          Finish([fn |-> "explain_response", response |-> response,
                  if_2xx |-> if_2xx, exit_if_4xx |-> exit_if_4xx],
                 explain_response(response, if_2xx, If4xxMsg, IfOthersMsg,
                                  exit_if_4xx))

GetOnlyReplicaPublicIpOrDie ==
    /\ CanCall
    /\ \E result \in ReplicaResults :
          Finish([fn |-> "get_only_replica_public_ip_or_die",
                  result |-> result],
                 get_only_replica_public_ip_or_die(result))

GetOnlyReplicaPublicIp ==
    /\ CanCall
    /\ \E replicas \in TypedReplicaLists :
          Finish([fn |-> "_get_only_replica_public_ip",
                  replicas |-> replicas],
                 _get_only_replica_public_ip(replicas))

\* sizeof_fmt is entered: num is the int passed in, the loop is at unit ""
SizeofFmtCall ==
    /\ CanCall
    /\ \E digits \in ByteCounts, neg \in BOOLEAN, suffix \in Suffixes :
          /\ neg => digits # <<>>
          /\ call' = [fn |-> "sizeof_fmt", neg |-> neg, digits |-> digits,
                      suffix |-> suffix]
          /\ num' = [isfloat |-> FALSE, neg |-> neg, digits |-> digits,
                     shift |-> 0]
    /\ unit' = 1
    /\ pc' = "loop"
    /\ ret' = NoneVal
    /\ console' = <<>>
    /\ UNCHANGED <<raised, exited, exit_code, matches>>

\* one iteration of the for loop, lines 161-164
SizeofFmtLoop ==
    /\ pc = "loop"
    /\ IF Below1024(num)
       THEN /\ ret' = Format(num, Units[unit], call.suffix)
            /\ pc' = "idle"
            /\ UNCHANGED <<num, unit>>
       ELSE /\ num' = Divide(num)
            /\ IF unit < Len(Units)
               THEN /\ unit' = unit + 1
                    /\ pc' = "loop"
               ELSE /\ unit' = unit
                    /\ pc' = "after_loop"
            /\ ret' = ret
    /\ UNCHANGED <<call, raised, console, exited, exit_code, matches>>

\* the loop ran out of units, line 165
SizeofFmtYi ==
    /\ pc = "after_loop"
    /\ ret' = Format(num, "Yi", call.suffix)
    /\ pc' = "idle"
    /\ UNCHANGED <<call, raised, console, exited, exit_code, matches, num, unit>>

Next ==
    \/ SizeofFmtCall
    \/ SizeofFmtLoop
    \/ SizeofFmtYi
    \/ GuardApi
    \/ Check
    \/ ExplainResponse
    \/ GetOnlyReplicaPublicIpOrDie
    \/ GetOnlyReplicaPublicIp
    \/ GetCommand
    \/ Continue

(***************************************************************************)
(* Properties.                                                             *)
(***************************************************************************)
Range(seq) == {seq[i] : i \in 1..Len(seq)}

InGetCommand == call.fn = "get_command"

\* the strings left of y when any of its characters are struck out
RECURSIVE Subsequences(_)
Subsequences(y) ==
    IF Len(y) = 0 THEN {<<>>}
    ELSE LET S == Subsequences(Tail(y))
         IN  S \cup {<<Head(y)>> \o t : t \in S}

\* x is a subsequence of y: its characters occur in y in the same order,
\* each character of y used at most once
IsSubsequence(x, y) == x \in Subsequences(y)

\* x abbreviates y as the specification words it
Abbreviates(x, y) == x[1] = y[1] /\ IsSubsequence(x, y)

\* a sorts before b: at the first position where they differ a has the
\* smaller code point, or a is a proper prefix of b
LexBefore(a, b) ==
    \/ /\ Len(a) < Len(b)
       /\ \A i \in 1..Len(a) : a[i] = b[i]
    \/ \E i \in 1..Len(a) :
          /\ i <= Len(b)
          /\ \A j \in 1..(i - 1) : a[j] = b[j]
          /\ ord(a[i]) < ord(b[i])

\* C1: a token that equals a registered command name resolves to exactly
\* that command; no ambiguity is reported and no other command is returned,
\* whatever other names the token abbreviates.
C1_ExactMatchPriority ==
    (InGetCommand /\ call.cmd_name \in call.registry)
        => /\ ret = [kind |-> "Command", name |-> call.cmd_name]
           /\ raised = NoRaise

\* an exact token that also abbreviates two other registered names
C1_Witness ==
    /\ InGetCommand
    /\ call.cmd_name \in call.registry
    /\ call.cmd_name # <<>>
    /\ Cardinality({y \in call.registry :
                       /\ y # call.cmd_name
                       /\ y # <<>>
                       /\ Abbreviates(call.cmd_name, y)}) >= 2
    /\ ret = [kind |-> "Command", name |-> call.cmd_name]

\* the list comprehension of line 49 ran to its end
AbbreviationRan ==
    /\ InGetCommand
    /\ call.cmd_name \notin call.registry
    /\ raised.kind # "IndexError"

\* C2: for a non-empty token x and non-empty name y, is_abbrev(x, y) holds
\* exactly when x and y start with the same character and x is a
\* subsequence of y; get_command keeps in matches exactly the names for
\* which is_abbrev holds.
C2_AbbrevIsSubsequence ==
    AbbreviationRan =>
        \A y \in call.registry :
            (y \in Range(matches)) <=> Abbreviates(call.cmd_name, y)

\* a two-letter token matches a longer name it is not a prefix of, and a
\* name with the same first character and no letter missing is rejected
C2_Witness ==
    /\ AbbreviationRan
    /\ Len(call.cmd_name) = 2
    /\ \E y \in Range(matches) :
          /\ Len(y) = Len(call.cmd_name) + 1
          /\ y[1] = call.cmd_name[1]
          /\ y[2] # call.cmd_name[2]
    /\ \E y \in call.registry :
          /\ y \notin Range(matches)
          /\ y[1] = call.cmd_name[1]
          /\ Range(call.cmd_name) \subseteq Range(y)
          /\ Len(y) >= Len(call.cmd_name)

\* C3: for a non-empty token that is not a registered name, over a registry
\* of non-empty names: no abbreviated name gives None, exactly one gives
\* that command, two or more raise the ambiguity error, which lists exactly
\* the abbreviated names in lexicographic order, and return no command.
C3_ResultPolicy ==
    (/\ InGetCommand
     /\ call.cmd_name \notin call.registry
     /\ call.cmd_name # <<>>
     /\ <<>> \notin call.registry)
        => LET M == {y \in call.registry : Abbreviates(call.cmd_name, y)}
           IN  /\ M = {} => (ret = NoneVal /\ raised = NoRaise)
               /\ Cardinality(M) = 1 =>
                     /\ raised = NoRaise
                     /\ ret.kind = "Command"
                     /\ ret.name \in M
               /\ Cardinality(M) >= 2 =>
                     /\ ret = NoneVal
                     /\ raised.kind = "UsageError"
                     /\ raised.cmd_name = call.cmd_name
                     /\ Range(raised.listed) = M
                     /\ Len(raised.listed) = Cardinality(M)
                     /\ \A i \in 1..(Len(raised.listed) - 1) :
                           LexBefore(raised.listed[i], raised.listed[i + 1])

\* an ambiguity among three names, one of them a prefix of another
C3_Witness ==
    /\ InGetCommand
    /\ raised.kind = "UsageError"
    /\ Len(raised.listed) = 3
    /\ \E i \in 1..2 : Len(raised.listed[i]) < Len(raised.listed[i + 1])
    /\ \E i \in 1..2 : Len(raised.listed[i]) >= Len(raised.listed[i + 1])

\* C10: an empty token that is not registered gives None only in an empty
\* registry; with a command registered, is_abbrev raises IndexError and
\* nothing is returned.  Any token that is not registered raises the same
\* way when the empty string is a registered name.
C10_EmptyTokenAborts ==
    (InGetCommand /\ call.cmd_name \notin call.registry)
        => /\ (call.cmd_name = <<>> /\ call.registry = {})
                 => (ret = NoneVal /\ raised = NoRaise)
           /\ (call.cmd_name = <<>> /\ call.registry # {})
                 => (ret = NoneVal /\ raised = [kind |-> "IndexError"])
           /\ (<<>> \in call.registry)
                 => (ret = NoneVal /\ raised = [kind |-> "IndexError"])

\* the empty token against a registry that holds a command
C10_Witness ==
    /\ InGetCommand
    /\ call.cmd_name = <<>>
    /\ Cardinality(call.registry) >= 2
    /\ raised = [kind |-> "IndexError"]

InExplain == call.fn = "explain_response"

\* the one line explain_response prints for a failed response
ErrorLine(response, errmsg) ==
    IF response.body.json = "object"
       /\ "code" \in response.body.keys /\ "message" \in response.body.keys
    THEN [kind |-> "coded", status_code |-> response.status_code,
          code |-> "X", message |-> "Y", errmsg |-> errmsg]
    ELSE [kind |-> "raw", status_code |-> response.status_code,
          text |-> response.body.text, errmsg |-> errmsg]

\* C4: on a status in 400..499 explain_response prints one error line (the
\* status code, the body's code and message when the body is a JSON object
\* with those keys, then the if_4xx text); it returns when exit_if_4xx is
\* false and exits with status 1 when it is true.
C4_ClientError ==
    (InExplain /\ call.response.status_code \in 400..499)
        => /\ console = <<ErrorLine(call.response, If4xxMsg)>>
           /\ raised = NoRaise
           /\ ~call.exit_if_4xx => (~exited /\ ret = NoneVal)
           /\ call.exit_if_4xx => (exited /\ exit_code = 1)

\* a 404 with a coded JSON body and exit_if_4xx false: printed, not exited
C4_Witness ==
    /\ InExplain
    /\ call.response.status_code = 404
    /\ call.response.body.keys = {"code", "message"}
    /\ ~call.exit_if_4xx
    /\ Len(console) = 1
    /\ console[1].kind = "coded"
    /\ ~exited

\* C5: on a status that is neither 2xx/3xx nor 4xx, explain_response prints
\* the if_others line and exits with status 1 whatever exit_if_4xx is; a
\* success response never exits.
C5_OtherStatusExits ==
    InExplain =>
        /\ (call.response.status_code \notin 200..499)
              => /\ console = <<ErrorLine(call.response, IfOthersMsg)>>
                 /\ exited
                 /\ exit_code = 1
        /\ (call.response.status_code \in 200..399) => ~exited

InReplicaOrDie == call.fn = "get_only_replica_public_ip_or_die"

\* C6: get_only_replica_public_ip_or_die returns only when the query gave
\* exactly one replica; an API error, no replica, or several replicas print
\* an error and exit with a non-zero status; with one replica the result is
\* its status.public_ip, None when status or public_ip is absent.
C6_OnlyReplica ==
    InReplicaOrDie =>
        LET one == call.result.kind = "list" /\ Len(call.result.items) = 1
        IN  /\ ~one => /\ exited
                       /\ exit_code # 0
                       /\ Len(console) >= 1
            /\ ~exited => one
            /\ one =>
                 LET r == call.result.items[1]
                 IN  /\ (r.status = "dict"
                         /\ r.public_ip \notin {"absent", "null"})
                           => (~exited /\ raised = NoRaise
                               /\ ret = Text(r.public_ip))
                     /\ (r.status = "absent"
                         \/ (r.status = "dict" /\ r.public_ip = "absent"))
                           => (~exited /\ raised = NoRaise /\ ret = NoneVal)

\* one replica without a status: None comes back
C6_Witness ==
    /\ InReplicaOrDie
    /\ call.result.kind = "list"
    /\ Len(call.result.items) = 1
    /\ call.result.items[1].status = "absent"
    /\ ret = NoneVal
    /\ ~exited

InGuardApi == call.fn = "guard_api"

InSizeofFmt == call.fn = "sizeof_fmt"

\* sizeof_fmt has returned
SizeofFmtReturned == InSizeofFmt /\ pc = "idle"

\* the prefix the thresholds give a count of len base-1024 digits: none
\* below 1024, the k-th prefix from 1024^k up to 1024^(k+1), Yi from 1024^8
UnitOf(len) ==
    IF len <= 1 THEN ""
    ELSE IF len <= Len(Units) THEN Units[len]
    ELSE "Yi"

\* the power k of 1024 that goes with that prefix
PowerOf(len) ==
    IF len <= 1 THEN 0
    ELSE IF len <= Len(Units) THEN len - 1
    ELSE Len(Units)

\* t tenths is d / 1024^k rounded to one decimal: t is a nearest tenth
IsRoundedToTenths(d, k, t) ==
    LET p == MulCarry(d, 10, 0)
        whole == ToInt(SubSeq(p, k + 1, Len(p)))
        cmp == HalfCompare(p, k + 1, 0)
    IN  IF k = 0 THEN t = whole
        ELSE \/ t = whole /\ cmp \in {"below", "tie"}
             \/ t = whole + 1 /\ cmp \in {"above", "tie"}

\* the result is the count d shown under the prefix its thresholds give
ShownByThresholds(d) ==
    /\ ret.kind = "str"
    /\ ret.unit = UnitOf(Len(d))
    /\ IsRoundedToTenths(d, PowerOf(Len(d)), ret.tenths)
    /\ ret.neg = call.neg
    /\ ret.suffix = call.suffix

\* sizeof_fmt(1023) = "1023.0B", sizeof_fmt(1024) = "1.0KiB",
\* sizeof_fmt(1536) = "1.5KiB"
SizeofFmtExamples ==
    /\ (call.digits = <<1023>>) => (ret.tenths = 10230 /\ ret.unit = "")
    /\ (call.digits = <<0, 1>>) => (ret.tenths = 10 /\ ret.unit = "Ki")
    /\ (call.digits = <<512, 1>>) => (ret.tenths = 15 /\ ret.unit = "Ki")

\* C8 as stated: the prefix and the digits shown follow from the integer n
\* itself: no prefix below 1024, the k-th prefix for 1024^k <= |n| <
\* 1024^(k+1), Yi from 1024^8, the value n / 1024^k rounded to one decimal,
\* the suffix last.
C8_UnitByCount ==
    SizeofFmtReturned => (ShownByThresholds(call.digits) /\ SizeofFmtExamples)

\* C8 amended: the prefix and the digits shown follow from f, the double
\* nearest to n (f = n for |n| < 2^53): no prefix when |f| < 1024, the k-th
\* prefix for 1024^k <= |f| < 1024^(k+1), Yi from 1024^8, the value
\* f / 1024^k rounded to one decimal, the suffix last; the three examples
\* hold.
C8_UnitByDouble ==
    SizeofFmtReturned =>
        (ShownByThresholds(RoundToDouble(call.digits)) /\ SizeofFmtExamples)

\* 2^60 - 1 lies below 1024^6 and is shown as "1.0EiB"
C8_Witness ==
    /\ SizeofFmtReturned
    /\ call.digits = <<1023, 1023, 1023, 1023, 1023, 1023>>
    /\ ret.unit = "Ei"
    /\ ret.tenths = 10

\* a * 1024^k as digits
RECURSIVE ShiftUp(_, _)
ShiftUp(d, k) ==
    IF k = 0 \/ Len(d) = 0 THEN d ELSE ShiftUp(<<0>> \o d, k - 1)

\* magnitude a times m equals magnitude b
TimesEquals(a, m, b) ==
    Normalize(MulCarry(ShiftUp(a.digits, b.shift), m, 0))
        = ShiftUp(b.digits, a.shift)

\* the loop moves on to the next unit
UnitStep == pc = "loop" /\ pc' # "idle"

\* the loop returns the formatted magnitude
LoopReturn == pc = "loop" /\ pc' = "idle"

\* the magnitude as a double
AsDouble(n) ==
    IF n.isfloat THEN n ELSE [n EXCEPT !.digits = RoundToDouble(n.digits)]

\* C9 as stated: each step to the next unit halves the running magnitude,
\* and the magnitude that is formatted is always below 1024.
C9_Halved ==
    [][/\ UnitStep => TimesEquals(num', 2, num)
       /\ (LoopReturn \/ pc = "after_loop") => Below1024(num)]_vars

\* C9 amended: each step to the next unit divides the running magnitude by
\* 1024 (the int passed in being taken as the nearest double on the first
\* step) and is taken only while the magnitude is 1024 or more; a
\* magnitude formatted inside the loop is below 1024, the one formatted
\* under Yi, after the eight steps, need not be.
C9_DividedBy1024 ==
    [][/\ UnitStep => /\ TimesEquals(num', Base, AsDouble(num))
                      /\ ~Below1024(num)
                      /\ num'.neg = num.neg
       /\ LoopReturn => (Below1024(num) /\ num' = num)
       /\ pc = "after_loop" => (num' = num /\ num.shift = Len(Units))]_vars

\* a count of 1024^9 and more, formatted under Yi at 1024 or above
C9_Witness ==
    /\ SizeofFmtReturned
    /\ ret.unit = "Yi"
    /\ num.shift = 8
    /\ ~Below1024(num)
    /\ ret.tenths >= 10240

Spec == Init /\ [][Next]_vars

====
